---- MODULE Spec2Model ----
(***************************************************************************)
(* PTP management message dispatcher (MessageDispatcher::callHadler) and   *)
(* builder (MessageBulder::buildTlv) of libptpmgmt, in the C++ library     *)
(* (msgCall.cpp) and in the Python binding, over one codec object          *)
(* (message: m_tlv_id, m_actionField, m_dataSend, m_dataGet).              *)
(***************************************************************************)
EXTENDS Integers, Sequences, FiniteSets, TLC

\* ------------------------------------------------------------------ bounds
\* number of cells of the heap the builder's typed values are allocated in
MaxAlloc == 2
\* payload values of a typed TLV are 0..MaxVal; 0 is the default-constructed one
MaxVal == 1

\* ------------------------------------------------------- program constants
GET == 0
SET == 1
RESPONSE == 2
COMMAND == 3
ACKNOWLEDGE == 4

Actions == {GET, SET, RESPONSE, COMMAND, ACKNOWLEDGE}

MNG_PARSE_ERROR_OK == "MNG_PARSE_ERROR_OK"
MNG_PARSE_ERROR_MSG == "MNG_PARSE_ERROR_MSG"
MNG_PARSE_ERROR_HEADER == "MNG_PARSE_ERROR_HEADER"

\* errors a parse can return in the model: one detected before the management
\* id was read (HEADER) and one detected after it (MSG)
ParseErrors == {MNG_PARSE_ERROR_MSG, MNG_PARSE_ERROR_HEADER}

\* ---------------------------------------------------------------- registry
\* rows of ids.h, A(n, v, sc, a, sz, f): allowed request actions, size of the
\* dataField, and the flag f that selects the dispatch / build case
mng_all_vals ==
    [ NULL_PTP_MANAGEMENT |-> [allowed |-> {GET, SET, COMMAND}, size |-> 0,  f |-> "NA"],
      CLOCK_DESCRIPTION   |-> [allowed |-> {GET},               size |-> -2, f |-> "UFS"],
      PRIORITY1           |-> [allowed |-> {GET, SET},          size |-> 2,  f |-> "UFB"],
      ENABLE_PORT         |-> [allowed |-> {COMMAND},           size |-> 0,  f |-> "NA"] ]

Ids == DOMAIN mng_all_vals

\* ids with a _ptpmCaseUF case (a typed structure n_t, a handler n_h, conv_n)
HandlerIds == {n \in Ids : mng_all_vals[n].f \in {"UF", "UFS", "UFB", "UFBS"}}

\* ids with a _ptpmCaseUFB case (a build callback n_b)
BuildIds == {n \in Ids : mng_all_vals[n].f \in {"UFB", "UFBS"}}

Vals == 0..MaxVal

\* a typed TLV value (BaseMngTlv) and the null pointer to one
NULL == [type |-> "nullptr", val |-> 0]
Tlvs == {[type |-> n, val |-> v] : n \in HandlerIds, v \in Vals}

\* the implementations: the C++ library built with GCC, the C++ library built
\* by a compiler without __GNUC__, and the Python binding
Impls == {"gcc", "nognuc", "python"}

\* methods a user's dispatcher / builder subclass can define
DispatcherMethods == HandlerIds \cup {"noTlv"}

isEmpty(id) == mng_all_vals[id].size = 0

allowedAction(id, action) ==
    CASE action = RESPONSE    -> (mng_all_vals[id].allowed \cap {GET, SET}) # {}
      [] action = ACKNOWLEDGE -> COMMAND \in mng_all_vals[id].allowed
      [] OTHER                -> action \in mng_all_vals[id].allowed

\* one call made by an operation: function, id argument, action argument,
\* TLV value argument, heap address of the value (0: none), what it returned
\* (TRUE for a void function)
CallRec(fn, id, a, data, obj, ret) ==
    [fn |-> fn, id |-> id, a |-> a, data |-> data, obj |-> obj, ret |-> ret]

\* dynamic_cast<const n_t*>(tlv) / conv_n(tlv): the value when it is an n_t
dynamic_cast(n, tlv) == IF tlv.type = n THEN tlv ELSE NULL

\* --------------------------------------------------------------- dispatcher
\* check_inherit with the comparison inverted
check_inherit_inverted(gnuc, cls, n) == gnuc /\ n \in cls

\* check_inherit(n): true when n_h still is the base class's (GCC only)
check_inherit(gnuc, cls, n) == gnuc /\ n \notin cls

ptpmCaseUF(gnuc, cls, n, tlv) ==
    IF check_inherit(gnuc, cls, n)
    THEN << CallRec("noTlvCallBack", n, GET, NULL, 0, TRUE) >>
    ELSE << CallRec("h", n, GET, dynamic_cast(n, tlv), 0, TRUE) >>

\* callHadler without the default case of its switch
callHadler_nodefault(gnuc, cls, tlv_id, tlv) ==
    IF tlv = NULL
    THEN << CallRec("noTlv", "", GET, NULL, 0, TRUE) >>
    ELSE IF tlv_id \in HandlerIds
         THEN ptpmCaseUF(gnuc, cls, tlv_id, tlv)
         ELSE << >>

\* callHadler without the test of tlv against nullptr
callHadler_nonull(gnuc, cls, tlv_id, tlv) ==
    IF tlv_id \in HandlerIds
    THEN ptpmCaseUF(gnuc, cls, tlv_id, tlv)
    ELSE << CallRec("noTlv", "", GET, NULL, 0, TRUE) >>

\* MessageDispatcher::callHadler(msg, tlv_id, tlv) of the C++ library: the
\* calls it makes
callHadler(gnuc, cls, tlv_id, tlv) ==
    IF tlv = NULL
    THEN << CallRec("noTlv", "", GET, NULL, 0, TRUE) >>
    ELSE IF tlv_id \in HandlerIds
         THEN ptpmCaseUF(gnuc, cls, tlv_id, tlv)
         ELSE << CallRec("noTlv", "", GET, NULL, 0, TRUE) >>

\* MessageDispatcher.callHadler(msg, tlv_id, tlv) of the Python binding, msg
\* holding (msgId, msgData)
callHadlerPy(cls, msgId, msgData, tlv_id, tlv) ==
    LET id == IF tlv = NULL THEN msgId ELSE tlv_id
        t  == IF tlv = NULL THEN msgData ELSE tlv
    IN  IF /\ t # NULL
           /\ id \in HandlerIds
           /\ id \in cls
           /\ dynamic_cast(id, t) # NULL
        THEN << CallRec("h", id, GET, dynamic_cast(id, t), 0, TRUE) >>
        ELSE IF "noTlv" \in cls
             THEN << CallRec("noTlv", "", GET, NULL, 0, TRUE) >>
             ELSE << >>

VARIABLES
    impl,           \* the implementation in use
    m_tlv_id,       \* message::m_tlv_id, both send and reply
    m_actionField,  \* message::m_actionField
    m_dataSend,     \* message::m_dataSend: heap address, 0 is nullptr
    m_dataGet,      \* message::m_dataGet: the decoded value or NULL
    m_err,          \* result of the last parse
    parsedOk,       \* history: some parse has succeeded
    heap,           \* cells of the typed values the builder allocates
    m_tlv,          \* MessageBulder::m_tlv: heap address, 0 is nullptr
    bulder,         \* TRUE while the MessageBulder object exists
    crashed,        \* the process died of a null reference
    op,             \* the last operation and its arguments and result
    calls           \* the calls the last operation made, in order

vars == << impl, m_tlv_id, m_actionField, m_dataSend, m_dataGet, m_err,
           parsedOk, heap, m_tlv, bulder, crashed, op, calls >>

codec == << m_tlv_id, m_actionField, m_dataSend >>

Cell(st, type, val) == [st |-> st, type |-> type, val |-> val]
Unalloc == Cell("unalloc", "", 0)
Freed == Cell("freed", "", 0)

OpRec(name, a, id, tlv, cls, res) ==
    [name |-> name, a |-> a, id |-> id, tlv |-> tlv, cls |-> cls, res |-> res]

Init ==
    /\ impl \in Impls
    /\ m_tlv_id = "NULL_PTP_MANAGEMENT"
    /\ m_actionField = GET
    /\ m_dataSend = 0
    /\ m_dataGet = NULL
    /\ m_err = MNG_PARSE_ERROR_OK
    /\ parsedOk = FALSE
    /\ heap = [i \in 1..MaxAlloc |-> Unalloc]
    /\ m_tlv = 0
    /\ bulder = TRUE
    /\ crashed = FALSE
    /\ op = OpRec("init", GET, "", NULL, {}, TRUE)
    /\ calls = << >>

\* the calls of callHadler(msg, tlv_id, tlv) in the implementation in use
Dispatch(cls, tlv_id, tlv) ==
    IF impl = "python"
    THEN callHadlerPy(cls, m_tlv_id, m_dataGet, tlv_id, tlv)
    ELSE callHadler(impl = "gcc", cls, tlv_id, tlv)

\* a call of n_h on *dynamic_cast<const n_t*>(tlv) with a null cast result
NullRef(cs) == \E i \in 1..Len(cs) : cs[i].fn = "h" /\ cs[i].data = NULL

\* the outcomes of a dispatch: the calls are made; binding a reference to a
\* null cast result is undefined, the handler runs on it or the process dies
DoDispatch(name, cls, tlv_id, tlv) ==
    LET cs == Dispatch(cls, tlv_id, tlv)
    IN  /\ ~crashed
        /\ op' = OpRec(name, GET, tlv_id, tlv, cls, TRUE)
        /\ \/ calls' = cs /\ crashed' = crashed
           \/ NullRef(cs) /\ calls' = << >> /\ crashed' = TRUE
        /\ UNCHANGED << impl, m_tlv_id, m_actionField, m_dataSend, m_dataGet,
                        m_err, parsedOk, heap, m_tlv, bulder >>

\* callHadler(msg, tlv_id, tlv) on a dispatcher subclass defining cls
CallHadler ==
    \E cls \in SUBSET DispatcherMethods, tlv_id \in Ids, tlv \in Tlvs \cup {NULL} :
        DoDispatch("callHadler", cls, tlv_id, tlv)

\* callHadler(msg)
CallHadlerMsg ==
    \E cls \in SUBSET DispatcherMethods :
        DoDispatch("callHadlerMsg", cls, m_tlv_id, m_dataGet)

\* ------------------------------------------------------------------- codec
\* a value the caller of setAction owns itself, outside the builder's heap
UserObj == MaxAlloc + 1

\* message::setAction(actionField, tlv_id [, dataSend]): the result and the
\* codec's send fields after it
setAction(actionField, tlv_id, dataSend) ==
    IF allowedAction(tlv_id, actionField)
    THEN [ok |-> TRUE, tlv_id |-> tlv_id, action |-> actionField,
          dataSend |-> dataSend]
    ELSE [ok |-> FALSE, tlv_id |-> m_tlv_id, action |-> m_actionField,
          dataSend |-> m_dataSend]

\* the codec's send fields become those of a setAction result
Store(r) ==
    /\ m_tlv_id' = r.tlv_id
    /\ m_actionField' = r.action
    /\ m_dataSend' = r.dataSend

\* setAction(a, id, d) called by the user
DoSetAction(a, id, d) ==
    LET r == setAction(a, id, d)
    IN  /\ ~crashed
        /\ Store(r)
        /\ op' = OpRec("setAction", a, id, NULL, {}, r.ok)
        /\ calls' = << CallRec("setAction", id, a, NULL, d, r.ok) >>
        /\ UNCHANGED << impl, m_dataGet, m_err, parsedOk, heap, m_tlv, bulder,
                        crashed >>

\* setAction(actionField, tlv_id)
SetAction == \E a \in Actions, id \in Ids : DoSetAction(a, id, 0)

\* setAction(actionField, tlv_id, dataSend) on a value the caller owns
SetActionData == \E a \in Actions, id \in Ids : DoSetAction(a, id, UserObj)

\* the outcomes of message::parse: the result, the tlv id and the decoded value
ParseOutcomes ==
    {[err |-> MNG_PARSE_ERROR_OK, id |-> n, data |-> NULL] : n \in Ids}
    \cup {[err |-> MNG_PARSE_ERROR_OK, id |-> t.type, data |-> t] : t \in Tlvs}
    \cup {[err |-> MNG_PARSE_ERROR_HEADER, id |-> m_tlv_id, data |-> NULL]}
    \cup {[err |-> MNG_PARSE_ERROR_MSG, id |-> n, data |-> NULL] : n \in Ids}

Parse ==
    \E r \in ParseOutcomes :
        /\ ~crashed
        /\ m_err' = r.err
        /\ m_tlv_id' = r.id
        /\ m_dataGet' = r.data
        /\ parsedOk' = (parsedOk \/ r.err = MNG_PARSE_ERROR_OK)
        /\ op' = OpRec("parse", GET, r.id, r.data, {}, r.err = MNG_PARSE_ERROR_OK)
        /\ calls' = << >>
        /\ UNCHANGED << impl, m_actionField, m_dataSend, heap, m_tlv, bulder,
                        crashed >>

\* ----------------------------------------------------------------- builder
\* new n_t: the first cell never allocated (0: none left)
NewCell ==
    IF \E i \in 1..MaxAlloc : heap[i] = Unalloc
    THEN CHOOSE i \in 1..MaxAlloc :
            heap[i] = Unalloc /\ \A j \in 1..(i - 1) : heap[j] # Unalloc
    ELSE 0

\* the heap after delete p (p = 0: nothing)
Delete(h, p) == IF p = 0 THEN h ELSE [h EXCEPT ![p] = Freed]

\* the shortcut without the isEmpty test
Shortcut_getonly(actionField, tlv_id) == actionField = GET

\* the GET / isEmpty shortcut of buildTlv
Shortcut(actionField, tlv_id) == actionField = GET \/ isEmpty(tlv_id)

\* the shortcut releasing the held value before it returns
BuildShortcut_reset(a, id, cls) ==
    LET r == setAction(a, id, 0)
    IN  /\ Store(r)
        /\ op' = OpRec("buildTlv", a, id, NULL, cls, r.ok)
        /\ calls' = << CallRec("setAction", id, a, NULL, 0, r.ok) >>
        /\ heap' = Delete(heap, m_tlv)
        /\ m_tlv' = 0

\* return m_msg.setAction(actionField, tlv_id)
BuildShortcut(a, id, cls) ==
    LET r == setAction(a, id, 0)
    IN  /\ Store(r)
        /\ op' = OpRec("buildTlv", a, id, NULL, cls, r.ok)
        /\ calls' = << CallRec("setAction", id, a, NULL, 0, r.ok) >>
        /\ UNCHANGED << heap, m_tlv >>

\* buildTlv returns false before allocating anything
BuildNoCase(a, id, cls) ==
    /\ op' = OpRec("buildTlv", a, id, NULL, cls, FALSE)
    /\ calls' = << >>
    /\ UNCHANGED << codec, heap, m_tlv >>

\* the refused value is not deleted
BuildRefused_leak(a, id, cls, d, v) ==
    /\ op' = OpRec("buildTlv", a, id, NULL, cls, FALSE)
    /\ calls' = << CallRec("b", id, a, [type |-> id, val |-> v], d, FALSE) >>
    /\ heap' = [heap EXCEPT ![d] = Cell("live", id, v)]
    /\ UNCHANGED << codec, m_tlv >>

\* the callback n_b returned false: the new value d is deleted
BuildRefused(a, id, cls, d, v) ==
    /\ op' = OpRec("buildTlv", a, id, NULL, cls, FALSE)
    /\ calls' = << CallRec("b", id, a, [type |-> id, val |-> v], d, FALSE) >>
    /\ heap' = Delete([heap EXCEPT ![d] = Cell("live", id, v)], d)
    /\ UNCHANGED << codec, m_tlv >>

\* setAction is called and true returned whatever it answered
ResetThenSetAction_true(a, id, cls, d, v) ==
    LET r == setAction(a, id, d)
    IN  /\ heap' = Delete([heap EXCEPT ![d] = Cell("live", id, v)], m_tlv)
        /\ m_tlv' = d
        /\ Store(r)
        /\ op' = OpRec("buildTlv", a, id, NULL, cls, TRUE)
        /\ calls' = << CallRec("b", id, a, [type |-> id, val |-> v], d, TRUE),
                       CallRec("setAction", id, a, NULL, d, r.ok) >>

\* the value held before, not the new one, is handed to setAction
ResetThenSetAction_stale(a, id, cls, d, v) ==
    LET r == setAction(a, id, m_tlv)
    IN  /\ heap' = Delete([heap EXCEPT ![d] = Cell("live", id, v)], m_tlv)
        /\ m_tlv' = d
        /\ Store(r)
        /\ op' = OpRec("buildTlv", a, id, NULL, cls, r.ok)
        /\ calls' = << CallRec("b", id, a, [type |-> id, val |-> v], d, TRUE),
                       CallRec("setAction", id, a, NULL, m_tlv, r.ok) >>

\* C++, the callback returned true: m_tlv.reset(tlv), then
\* return m_msg.setAction(actionField, tlv_id, tlv)
ResetThenSetAction(a, id, cls, d, v) ==
    LET r == setAction(a, id, d)
    IN  /\ heap' = Delete([heap EXCEPT ![d] = Cell("live", id, v)], m_tlv)
        /\ m_tlv' = d
        /\ Store(r)
        /\ op' = OpRec("buildTlv", a, id, NULL, cls, r.ok)
        /\ calls' = << CallRec("b", id, a, [type |-> id, val |-> v], d, TRUE),
                       CallRec("setAction", id, a, NULL, d, r.ok) >>

\* Python, the callback returned true: setAction, and self.m_tlv = tlv only
\* when it succeeded; the value no name refers to any more is collected
SetActionThenKeep(a, id, cls, d, v) ==
    LET r == setAction(a, id, d)
        h == [heap EXCEPT ![d] = Cell("live", id, v)]
    IN  /\ heap' = IF r.ok THEN Delete(h, m_tlv) ELSE Delete(h, d)
        /\ m_tlv' = IF r.ok THEN d ELSE m_tlv
        /\ Store(r)
        /\ op' = OpRec("buildTlv", a, id, NULL, cls, r.ok)
        /\ calls' = << CallRec("b", id, a, [type |-> id, val |-> v], d, TRUE),
                       CallRec("setAction", id, a, NULL, d, r.ok) >>

\* MessageBulder::buildTlv of the C++ library; cls: the ids whose n_b the
\* subclass overrides (the base n_b returns false); ret, v: what n_b returns
\* and the payload it stores
buildTlv(a, id, cls, ret, v) ==
    IF Shortcut(a, id)
    THEN BuildShortcut(a, id, cls)
    ELSE IF id \notin BuildIds
         THEN BuildNoCase(a, id, cls)
         ELSE /\ NewCell # 0
              /\ IF ret /\ id \in cls
                 THEN ResetThenSetAction(a, id, cls, NewCell, v)
                 ELSE BuildRefused(a, id, cls, NewCell, v)

\* MessageBulder.buildTlv of the Python binding; cls: the ids whose n_b the
\* subclass defines
buildTlvPy(a, id, cls, ret, v) ==
    IF Shortcut(a, id)
    THEN BuildShortcut(a, id, cls)
    ELSE IF id \in HandlerIds /\ id \in cls
         THEN /\ NewCell # 0
              /\ IF ret
                 THEN SetActionThenKeep(a, id, cls, NewCell, v)
                 ELSE BuildRefused(a, id, cls, NewCell, v)
         ELSE BuildNoCase(a, id, cls)

BuildTlv ==
    \E a \in Actions, id \in Ids, cls \in SUBSET BuildIds,
       ret \in BOOLEAN, v \in Vals :
        /\ ~crashed
        /\ bulder
        /\ IF impl = "python"
           THEN buildTlvPy(a, id, cls, ret, v)
           ELSE buildTlv(a, id, cls, ret, v)
        /\ UNCHANGED << impl, m_dataGet, m_err, parsedOk, bulder, crashed >>

\* the builder is destroyed: the codec drops the value (clearData) and the
\* held value is released
Destroy ==
    /\ ~crashed
    /\ bulder
    /\ bulder' = FALSE
    /\ m_dataSend' = 0
    /\ heap' = Delete(heap, m_tlv)
    /\ m_tlv' = 0
    /\ op' = OpRec("destroy", GET, "", NULL, {}, TRUE)
    /\ calls' = << >>
    /\ UNCHANGED << impl, m_tlv_id, m_actionField, m_dataGet, m_err, parsedOk,
                    crashed >>

Next ==
    \/ CallHadler
    \/ CallHadlerMsg
    \/ SetAction
    \/ SetActionData
    \/ Parse
    \/ BuildTlv
    \/ Destroy

Spec == Init /\ [][Next]_vars

\* callHadler(msg, tlv_id, tlv) on what a codec holds after parsing
NextCall == CallHadler \/ Parse
SpecCall == Init /\ [][NextCall]_vars

\* callHadler(msg) on a codec that parses and is given actions to send
NextMsg == CallHadlerMsg \/ Parse \/ SetAction
SpecMsg == Init /\ [][NextMsg]_vars

\* the builder and the send side of its codec
NextBuild == BuildTlv \/ SetAction \/ SetActionData \/ Destroy
SpecBuild == Init /\ [][NextBuild]_vars

\* ------------------------------------------------------------------ claims
NoTlvCall == CallRec("noTlv", "", GET, NULL, 0, TRUE)
HandlerCall(n, tlv) == CallRec("h", n, GET, tlv, 0, TRUE)
NoTlvCallBackCall(n) == CallRec("noTlvCallBack", n, GET, NULL, 0, TRUE)

\* callHadler(msg, n, tlv) was called with a non-null tlv for an id n that has
\* a typed handler
TypedCall ==
    /\ op.name = "callHadler"
    /\ op.tlv # NULL
    /\ op.id \in HandlerIds

\* C1 as stated: for an id n with a typed handler that the user overrides,
\* callHadler(msg, n, tlv) with any non-null tlv makes exactly one call, n_h
\* with the value tlv and the name of n.
C1_AnyTlv ==
    (TypedCall /\ op.id \in op.cls) =>
        calls = << HandlerCall(op.id, op.tlv) >>

\* C1 amended: for an id n with a typed handler that the user overrides,
\* callHadler(msg, n, tlv) with a non-null tlv that is an n_t makes exactly
\* one call, n_h with the value tlv and the name of n (no noTlv, no
\* noTlvCallBack, no handler of another id), and the process lives.
C1_TypedTlv ==
    (TypedCall /\ op.id \in op.cls /\ op.tlv.type = op.id) =>
        /\ calls = << HandlerCall(op.id, op.tlv) >>
        /\ ~crashed

C1_Witness ==
    /\ TypedCall
    /\ op.id = "PRIORITY1"
    /\ op.tlv = [type |-> "PRIORITY1", val |-> 1]
    /\ op.cls = DispatcherMethods
    /\ calls = << HandlerCall("PRIORITY1", op.tlv) >>

\* C2 as stated: in every implementation, callHadler with a non-null tlv for
\* an id whose typed handler the user did not override makes exactly one call,
\* noTlvCallBack(msg, name of the id).
C2_NoTlvCallBack ==
    (TypedCall /\ op.id \notin op.cls) =>
        calls = << NoTlvCallBackCall(op.id) >>

\* C3 as stated, on a dispatcher subclass that defines noTlv: callHadler with
\* a null tlv, or with a non-null tlv for an id without a handler case, makes
\* exactly one call, noTlv(msg).
C3_NullTlv ==
    (/\ op.name = "callHadler"
     /\ "noTlv" \in op.cls
     /\ (op.tlv = NULL \/ op.id \notin HandlerIds)) =>
        calls = << NoTlvCall >>

\* C3 amended: the C++ callHadler with a null tlv, whatever tlv_id is, or with
\* a non-null tlv for an id without a handler case, makes exactly one call,
\* noTlv(msg). The Python callHadler replaces a null tlv by the codec's own
\* tlv id and decoded value; when that value is null too, or the tlv is
\* non-null and its id has no handler case, its only call is noTlv(msg), made
\* when the subclass defines noTlv (otherwise it calls nothing).
C3_NoTlv ==
    (/\ op.name = "callHadler"
     /\ \/ op.tlv = NULL /\ (impl = "python" => m_dataGet = NULL)
        \/ op.tlv # NULL /\ op.id \notin HandlerIds) =>
        calls = IF impl = "python" /\ "noTlv" \notin op.cls
                THEN << >>
                ELSE << NoTlvCall >>

\* buildTlv(a, id) was just called and took / did not take the shortcut
ShortBuild == op'.name = "buildTlv" /\ (op'.a = GET \/ isEmpty(op'.id))
FullBuild == op'.name = "buildTlv" /\ op'.a # GET /\ ~isEmpty(op'.id)

\* the positions of the calls of fn in a sequence of calls
CallsOf(cs, fn) == {i \in 1..Len(cs) : cs[i].fn = fn}

\* C4: buildTlv(action, id) with action = GET or isEmpty(id) only calls
\* setAction(action, id) without data and returns its result; it allocates
\* nothing, calls no build callback and leaves the held value alone.
C4_Shortcut ==
    [][ShortBuild =>
          /\ calls' = << CallRec("setAction", op'.id, op'.a, NULL, 0, op'.res) >>
          /\ op'.res = setAction(op'.a, op'.id, 0).ok
          /\ heap' = heap
          /\ m_tlv' = m_tlv]_vars

C4_Witness ==
    /\ op.name = "buildTlv"
    /\ op.a = COMMAND
    /\ op.id = "ENABLE_PORT"
    /\ op.res
    /\ m_tlv # 0
    /\ heap[m_tlv].st = "live"
    /\ m_dataSend = 0

\* the builder subclass cls has a build case for id in the implementation
HasBuildCase(id, cls) ==
    IF impl = "python" THEN id \in HandlerIds /\ id \in cls ELSE id \in BuildIds

\* a successful full build: the callback ran once on a fresh cell d and
\* returned true, setAction(a, id, d) succeeded, and the codec's dataSend is
\* d, holding what the callback stored
BuiltOn(d) ==
    /\ calls'[1].ret
    /\ Len(calls') = 2
    /\ calls'[2] = CallRec("setAction", op'.id, op'.a, NULL, d, TRUE)
    /\ allowedAction(op'.id, op'.a)
    /\ m_dataSend' = d
    /\ heap'[d] = Cell("live", op'.id, calls'[1].data.val)

\* the callback ran exactly once, first, on a cell not allocated before
CalledOnFresh ==
    /\ CallsOf(calls', "b") = {1}
    /\ calls'[1].id = op'.id
    /\ calls'[1].obj \in 1..MaxAlloc
    /\ heap[calls'[1].obj] = Unalloc

\* C5 as stated: buildTlv(action, id) with action # GET and a non-empty id
\* allocates a fresh value, calls id_b on it exactly once, and returns true
\* only if the callback returned true and setAction succeeded, dataSend then
\* being the value the callback populated.
C5_AnyId ==
    [][FullBuild =>
          /\ CalledOnFresh
          /\ op'.res => BuiltOn(calls'[1].obj)]_vars

\* C5 amended: buildTlv(action, id) with action # GET and a non-empty id that
\* has a build case (C++: a _ptpmCaseUFB case; Python: a typed structure and
\* an id_b defined by the subclass) allocates a fresh value, calls id_b on it
\* exactly once, and returns true only if the callback returned true and
\* setAction succeeded, dataSend then being the value the callback populated;
\* for a non-empty id without a build case it returns false, allocating and
\* calling nothing.
C5_BuildCase ==
    [][FullBuild =>
          IF HasBuildCase(op'.id, op'.cls)
          THEN /\ CalledOnFresh
               /\ op'.res => BuiltOn(calls'[1].obj)
          ELSE /\ calls' = << >>
               /\ ~op'.res
               /\ heap' = heap]_vars

C5_Witness ==
    /\ op.name = "buildTlv"
    /\ op.a = SET
    /\ op.id = "PRIORITY1"
    /\ op.res
    /\ Len(calls) = 2
    /\ calls[1].data.val = 1
    /\ m_dataSend = calls[1].obj
    /\ heap[m_dataSend] = Cell("live", "PRIORITY1", 1)

\* C6: a value the builder holds stays held and alive over every step that
\* is neither a buildTlv past the shortcut nor the builder's destruction; a
\* buildTlv taking the shortcut is such a step.
C6_KeptAlive ==
    [][(/\ m_tlv # 0
        /\ heap[m_tlv].st = "live"
        /\ ~FullBuild
        /\ op'.name # "destroy") =>
          /\ m_tlv' = m_tlv
          /\ heap'[m_tlv] = heap[m_tlv]]_vars

C6_Witness ==
    /\ op.name = "buildTlv"
    /\ op.a = GET
    /\ op.res
    /\ m_tlv # 0
    /\ heap[m_tlv] = Cell("live", "PRIORITY1", 1)

\* C7: setAction(a, I), with or without data, called by the user or by
\* buildTlv, for an action a the registry disallows for I returns false and
\* leaves the codec's tlv id, action and dataSend as they were.
C7_Disallowed ==
    [][(/\ op'.name \in {"setAction", "buildTlv"}
        /\ ~allowedAction(op'.id, op'.a)) =>
          /\ ~op'.res
          /\ \A i \in CallsOf(calls', "setAction") : ~calls'[i].ret
          /\ codec' = codec]_vars

C7_Witness ==
    /\ op.name = "buildTlv"
    /\ op.a = COMMAND
    /\ op.id = "PRIORITY1"
    /\ ~op.res
    /\ CallsOf(calls, "setAction") = {2}
    /\ m_tlv_id = "ENABLE_PORT"
    /\ m_actionField = ACKNOWLEDGE
    /\ m_dataSend = UserObj

\* C8: after a parse that returned an error the codec holds no decoded value,
\* also when an earlier parse had succeeded, and callHadler(msg) then calls no
\* typed handler and no noTlvCallBack but noTlv(msg), once (a Python subclass
\* that defines no noTlv gets no call).
C8_FailedParse ==
    m_err # MNG_PARSE_ERROR_OK =>
        /\ m_dataGet = NULL
        /\ op.name = "callHadlerMsg" =>
              calls = IF impl = "python" /\ "noTlv" \notin op.cls
                      THEN << >>
                      ELSE << NoTlvCall >>

C8_Witness ==
    /\ m_err # MNG_PARSE_ERROR_OK
    /\ parsedOk
    /\ op.name = "callHadlerMsg"
    /\ op.id = "PRIORITY1"
    /\ "PRIORITY1" \in op.cls
    /\ m_dataGet = NULL
    /\ calls = << NoTlvCall >>

\* C9: when the build callback returns false, buildTlv returns false, the
\* new value is released, setAction is not called, and the codec's tlv id,
\* action and dataSend and the value the builder held are unchanged.
C9_Refused ==
    [][(/\ op'.name = "buildTlv"
        /\ \E i \in CallsOf(calls', "b") : ~calls'[i].ret) =>
          /\ ~op'.res
          /\ \A i \in CallsOf(calls', "b") : heap'[calls'[i].obj] = Freed
          /\ CallsOf(calls', "setAction") = {}
          /\ codec' = codec
          /\ m_tlv' = m_tlv
          /\ m_tlv # 0 => heap'[m_tlv] = heap[m_tlv]]_vars

C9_Witness ==
    /\ op.name = "buildTlv"
    /\ op.a = SET
    /\ op.id = "PRIORITY1"
    /\ ~op.res
    /\ Len(calls) = 1
    /\ ~calls[1].ret
    /\ heap[calls[1].obj] = Freed
    /\ m_tlv # 0
    /\ m_dataSend = m_tlv
    /\ heap[m_tlv].st = "live"

\* C10 as stated: while the builder exists, the value the codec has attached
\* as dataSend is none, a value the caller of setAction owns, or the value
\* the builder holds.
C10_HeldOrNone ==
    bulder => m_dataSend \in {0, UserObj, m_tlv}

\* C11 as stated: after any interleaving of parse, setAction and
\* callHadler(msg) on one codec, every typed handler n_h that callHadler(msg)
\* invokes is passed a value of the type n_t of that same id: the down-cast
\* of the dispatch case never yields null (and so the process never dies of
\* a null reference).
C11_CastNeverNull ==
    op.name = "callHadlerMsg" =>
        /\ ~crashed
        /\ \A i \in CallsOf(calls, "h") :
              /\ calls[i].data # NULL
              /\ calls[i].data.type = calls[i].id

C3_Witness ==
    /\ op.name = "callHadler"
    /\ impl = "gcc"
    /\ op.tlv = NULL
    /\ op.id = "PRIORITY1"
    /\ "PRIORITY1" \in op.cls
    /\ m_dataGet # NULL
    /\ calls = << NoTlvCall >>
====
